---- MODULE Spec2Model ----
(***************************************************************************)
(* The MaterialRadio widget (src/unnamed/part_001) on a page of NumElems   *)
(* containers, each holding one native radio control.  The state is the   *)
(* live DOM the widget reads and writes (control properties, container    *)
(* class lists, appended children, registered listeners, the instance     *)
(* reference the registry stores on a container), the focus owner and the  *)
(* timer queue.  One action per public method, constructor call or         *)
(* browser-dispatched event.                                               *)
(*                                                                         *)
(* Browser behaviour the code relies on is modelled where the code calls   *)
(* into it: a radio control whose checked property becomes true unchecks   *)
(* the other controls of the same name (all controls are in one form and   *)
(* every name is non-empty, as the markup contract requires), an event     *)
(* runs the listeners registered for it, and a timer callback runs in a    *)
(* later turn.                                                             *)
(***************************************************************************)
EXTENDS Integers, Sequences, FiniteSets

\* Number of widget containers on the page (document order 1..NumElems).
NumElems == 2

\* Pending deferred callbacks the timer queue may hold at once.
MaxTimers == 2

\* Containers whose markup state is drawn freely in the refresh specification.
RefreshElems == 1

\* Runs of onMouseup_ a behaviour may contain.
MaxMouseups == 3

Elems == 1..NumElems

\* The element passed to the constructor when the container is absent (null).
Absent == 0

\* The name attributes used on the page.
Names == {"tier", "plan"}

\* CssClasses_
IS_FOCUSED == "is-focused"
IS_DISABLED == "is-disabled"
IS_CHECKED == "is-checked"
IS_UPGRADED == "is-upgraded"
JS_RADIO == "mdl-js-radio"
RADIO_OUTER_CIRCLE == "mdl-radio__outer-circle"
RADIO_INNER_CIRCLE == "mdl-radio__inner-circle"
RIPPLE_EFFECT == "mdl-js-ripple-effect"
RIPPLE_IGNORE_EVENTS == "mdl-js-ripple-effect--ignore-events"
RIPPLE_CONTAINER == "mdl-radio__ripple-container"

\* The four state-derived visual classes.
StateClasses == {IS_FOCUSED, IS_DISABLED, IS_CHECKED, IS_UPGRADED}

VARIABLES
  btn,       \* btn[e]: the container holds a control (markup, never written)
  name,      \* name[e]: the name attribute of e's control (markup, never written)
  checked,   \* checked[e]: the control's checked property
  disabled,  \* disabled[e]: the control's disabled property
  cls,       \* cls[e]: the container's classList
  kids,      \* kids[e]: classes of the children appended to the container
  lsn,       \* lsn[e]: listeners registered, as <<target, event type, handler>>
  ref,       \* ref[e]: container['MaterialRadio'] is defined
  inst,      \* inst[e]: new MaterialRadio ran on e
  focus,     \* the element whose control has focus, or Absent
  timers,    \* queue of pending setTimeout callbacks (the element of each)
  ups,       \* number of runs of onMouseup_ so far
  blurs,     \* number of btnElement_.blur() calls made by timer callbacks so far
  calls,     \* elements whose updateClasses_ ran in the last operation, in order
  threw,     \* the last operation ended in an uncaught exception
  last,      \* the operation that completed last
  unmanaged, \* names whose checked state changed while a container of that
             \* name stored no instance reference
  shell      \* the document shell module (src/unnamed/part_000) and its output

vars == <<btn, name, checked, disabled, cls, kids, lsn, ref, inst, focus, timers,
          ups, blurs, calls, threw, last, unmanaged, shell>>

\* The part of the state the widget's code reads and writes, as one record.
Dom == [checked |-> checked, disabled |-> disabled, cls |-> cls, kids |-> kids,
        lsn |-> lsn, ref |-> ref, focus |-> focus, timers |-> timers,
        ups |-> ups, blurs |-> blurs, calls |-> calls, threw |-> threw]

----------------------------------------------------------------------------
\* The document shell (src/unnamed/part_000): the module-level load of the
\* generated stylesheet and HTML.render.

\* The value of a variable never assigned.
Undefined == "undefined"

\* ../public/styles.css does not resolve: require raises.
NoFile == "no file"

\* What ../public/styles.css may hold.
StyleFiles == {"", "a{color:red}", "body{margin:0}"}

\* The component lists and the body markup render may be given.
Components == {<<>>, <<"component">>}

Bodies == {"", "<main/>"}

\* The module before it is evaluated, for a build mode and a stylesheet.
ShellStart(env, file) ==
  [env |-> env, file |-> file, stylesStr |-> Undefined, attempted |-> FALSE,
   logged |-> <<>>, loaded |-> FALSE, failed |-> FALSE,
   props |-> [headComponents |-> <<>>, preBodyComponents |-> <<>>,
              body |-> "", postBodyComponents |-> <<>>],
   doc |-> <<>>]

\* the require outside any try
loadStylesUnguarded(sh) ==
  IF sh.env = "production"
    THEN IF sh.file = NoFile
           THEN [sh EXCEPT !.attempted = TRUE, !.failed = TRUE]
           ELSE [sh EXCEPT !.attempted = TRUE, !.stylesStr = sh.file, !.loaded = TRUE]
    ELSE [sh EXCEPT !.loaded = TRUE]

\* Module evaluation: let stylesStr; if production, try require, catch and
\* console.error.
loadStyles(sh) ==
  IF sh.env = "production"
    THEN IF sh.file = NoFile
           THEN [sh EXCEPT !.attempted = TRUE, !.logged = Append(@, "Cannot find module"),
                           !.loaded = TRUE]
           ELSE [sh EXCEPT !.attempted = TRUE, !.stylesStr = sh.file, !.loaded = TRUE]
    ELSE [sh EXCEPT !.loaded = TRUE]

\* A style element whose content is set through dangerouslySetInnerHTML: an
\* undefined __html leaves the element empty.
StyleElement(id, html) ==
  [tag |-> "style", id |-> id, text |-> IF html = Undefined THEN "" ELSE html]

Element(tag, id, text) == [tag |-> tag, id |-> id, text |-> text]

RECURSIVE ComponentElements(_)
ComponentElements(cs) ==
  IF cs = <<>> THEN <<>>
  ELSE <<Element(Head(cs), "", "")>> \o ComponentElements(Tail(cs))

\* HTML.render
render(sh, props) ==
  LET css == IF sh.env = "production"
               THEN <<StyleElement("gatsby-inlined-css", sh.stylesStr)>>
               ELSE <<>>
  IN [sh EXCEPT
        !.props = props,
        !.doc = <<[head |-> <<Element("meta", "", "")>>
                            \o ComponentElements(props.headComponents) \o css,
                   body |-> ComponentElements(props.preBodyComponents)
                            \o <<Element("div", "___gatsby", props.body)>>
                            \o ComponentElements(props.postBodyComponents)]>>]

----------------------------------------------------------------------------
\* Public and private methods, as functions of the DOM record.

checkDisabledAdds(d, e) ==
  [d EXCEPT !.cls[e] = @ \cup {IS_DISABLED}]

checkDisabled(d, e) ==
  IF d.disabled[e]
    THEN [d EXCEPT !.cls[e] = @ \cup {IS_DISABLED}]
    ELSE [d EXCEPT !.cls[e] = @ \ {IS_DISABLED}]

\* classList.toggle in place of classList.add
checkToggleStateToggles(d, e) ==
  IF d.checked[e]
    THEN [d EXCEPT !.cls[e] = IF IS_CHECKED \in @ THEN @ \ {IS_CHECKED}
                                                  ELSE @ \cup {IS_CHECKED}]
    ELSE [d EXCEPT !.cls[e] = @ \ {IS_CHECKED}]

checkToggleStateKeeps(d, e) ==
  IF d.checked[e]
    THEN [d EXCEPT !.cls[e] = @ \cup {IS_CHECKED}]
    ELSE d

checkToggleState(d, e) ==
  IF d.checked[e]
    THEN [d EXCEPT !.cls[e] = @ \cup {IS_CHECKED}]
    ELSE [d EXCEPT !.cls[e] = @ \ {IS_CHECKED}]

updateClasses_(d, e) ==
  checkToggleState(checkDisabled([d EXCEPT !.calls = Append(@, e)], e), e)

\* the scan without the comparison of names
RECURSIVE onChangeLoopAnyName(_, _, _)
onChangeLoopAnyName(d, this, i) ==
  IF i > NumElems THEN d
  ELSE IF ~btn[i] \/ ~btn[this] THEN [d EXCEPT !.threw = TRUE]
  ELSE onChangeLoopAnyName(IF d.ref[i] THEN updateClasses_(d, i) ELSE d, this, i + 1)

\* the scan without the test of the stored reference
RECURSIVE onChangeLoopAnyContainer(_, _, _)
onChangeLoopAnyContainer(d, this, i) ==
  IF i > NumElems THEN d
  ELSE IF ~btn[i] \/ ~btn[this] THEN [d EXCEPT !.threw = TRUE]
  ELSE onChangeLoopAnyContainer(IF name[i] = name[this] THEN updateClasses_(d, i) ELSE d,
                                this, i + 1)

\* The scan of onChange_ from radios[i] on, for the instance on element this.
\* On a container without control, button is null and button.getAttribute
\* raises a TypeError, which ends the scan.
RECURSIVE onChangeLoop(_, _, _)
onChangeLoop(d, this, i) ==
  IF i > NumElems THEN d
  ELSE IF ~btn[i] \/ ~btn[this] THEN [d EXCEPT !.threw = TRUE]
  ELSE onChangeLoop(IF name[i] = name[this] /\ d.ref[i]
                      THEN updateClasses_(d, i) ELSE d,
                    this, i + 1)

onChangeSelfOnly(d, this) == updateClasses_(d, this)

onChangeFromSecond(d, this) == onChangeLoop(d, this, 2)

onChange_(d, this) == onChangeLoop(d, this, 1)

onFocus_(d, this) == [d EXCEPT !.cls[this] = @ \cup {IS_FOCUSED}]

onBlur_(d, this) == [d EXCEPT !.cls[this] = @ \ {IS_FOCUSED}]

\* btnElement_.blur() called in the handler's own turn
blurNow(d, this) ==
  IF d.focus = this THEN [d EXCEPT !.focus = Absent, !.cls[this] = @ \ {IS_FOCUSED}]
  ELSE d

\* no callback queued
blurDropped(d, this) == d

\* window.setTimeout(...): the callback is queued, nothing else happens now.
blur_(d, this) == [d EXCEPT !.timers = Append(@, this)]

onMouseup_(d, this) == blur_([d EXCEPT !.ups = @ + 1], this)

\* The handlers init binds.
boundChangeHandlerIsBlur == "onBlur_"

boundChangeHandler_ == "onChange_"

boundFocusHandler_ == "onChange_"

boundBlurHandler_ == "onBlur_"

boundMouseUpHandler_ == "onMouseup_"

RunHandler(d, this, h) ==
  CASE h = "onChange_" -> onChange_(d, this)
    [] h = "onFocus_" -> onFocus_(d, this)
    [] h = "onBlur_" -> onBlur_(d, this)
    [] h = "onMouseup_" -> onMouseup_(d, this)

\* The handlers a listener of instance e may be bound to, in a fixed order.
Handlers == <<"onChange_", "onFocus_", "onBlur_", "onMouseup_">>

\* An event of the given type at the given target of e runs the listeners
\* registered there.
RECURSIVE DispatchFrom(_, _, _, _, _)
DispatchFrom(d, e, target, type, k) ==
  IF k > Len(Handlers) THEN d
  ELSE DispatchFrom(IF <<target, type, Handlers[k]>> \in d.lsn[e]
                      THEN RunHandler(d, e, Handlers[k]) ELSE d,
                    e, target, type, k + 1)

Dispatch(d, e, target, type) == DispatchFrom(d, e, target, type, 1)

\* Assigning the checked property of a radio control: a control that becomes
\* checked unchecks the other controls of its group.
SetChecked(d, e, v) ==
  [d EXCEPT !.checked = [y \in Elems |->
      IF y = e THEN v
      ELSE IF v /\ name[y] = name[e] THEN FALSE ELSE @[y]]]

SetDisabled(d, e, v) == [d EXCEPT !.disabled[e] = v]

disableNoRefresh(d, this) == SetDisabled(d, this, TRUE)

disable(d, this) == updateClasses_(SetDisabled(d, this, TRUE), this)

enableNoRefresh(d, this) == SetDisabled(d, this, FALSE)

enable(d, this) == updateClasses_(SetDisabled(d, this, FALSE), this)

check(d, this) == onChange_(SetChecked(d, this, TRUE), this)

uncheckNoRefresh(d, this) == SetChecked(d, this, FALSE)

uncheck(d, this) == onChange_(SetChecked(d, this, FALSE), this)

\* init up to the listeners of the control: the circles and, with the ripple
\* class, the ripple container and its listener.
initDecorate(d, elt) ==
  LET ripple == RIPPLE_EFFECT \in d.cls[elt]
  IN [d EXCEPT
        !.kids[elt] = @ \o <<RADIO_OUTER_CIRCLE, RADIO_INNER_CIRCLE>>
                        \o (IF ripple THEN <<RIPPLE_CONTAINER>> ELSE <<>>),
        !.cls[elt] = IF ripple THEN @ \cup {RIPPLE_IGNORE_EVENTS} ELSE @,
        !.lsn[elt] = @ \cup (IF ripple
                               THEN {<<"ripple", "mouseup", boundMouseUpHandler_>>}
                               ELSE {})]

\* init from the listeners of the control on.
initListen(d, elt) ==
  LET d1 == [d EXCEPT
               !.lsn[elt] = @ \cup {<<"btn", "change", boundChangeHandler_>>,
                                    <<"btn", "focus", boundFocusHandler_>>,
                                    <<"btn", "blur", boundBlurHandler_>>,
                                    <<"elt", "mouseup", boundMouseUpHandler_>>}]
      d2 == updateClasses_(d1, elt)
  IN [d2 EXCEPT !.cls[elt] = @ \cup {IS_UPGRADED}]

\* a missing control is passed over and init completes
initBodyTolerant(d, elt) ==
  IF elt \notin Elems THEN [d EXCEPT !.threw = TRUE]
  ELSE IF ~btn[elt]
    THEN [initDecorate(d, elt) EXCEPT
            !.lsn[elt] = @ \cup {<<"elt", "mouseup", boundMouseUpHandler_>>},
            !.cls[elt] = @ \cup {IS_UPGRADED}]
  ELSE initListen(initDecorate(d, elt), elt)

\* The body of init, past its guard.  With no element the first statement,
\* this.element_.querySelector, raises a TypeError.  With an element that
\* holds no control, btnElement_ is null and the first
\* this.btnElement_.addEventListener raises a TypeError.
initBody(d, elt) ==
  IF elt \notin Elems THEN [d EXCEPT !.threw = TRUE]
  ELSE IF ~btn[elt] THEN [initDecorate(d, elt) EXCEPT !.threw = TRUE]
  ELSE initListen(initDecorate(d, elt), elt)

initUnguarded(d, elt) == initBody(d, elt)

init(d, elt) == IF elt # Absent THEN initBody(d, elt) ELSE d

\* new MaterialRadio(element)
MaterialRadio(d, element) == init(d, element)

----------------------------------------------------------------------------
\* The state machine.

\* The DOM as an operation finds it: no call traced, no exception pending.
Fresh == [Dom EXCEPT !.calls = <<>>, !.threw = FALSE]

Op(op, e) == [op |-> op, e |-> e, chk0 |-> FALSE, ctl0 |-> FALSE, seq |-> FALSE]

Commit(d) ==
  /\ checked' = d.checked
  /\ disabled' = d.disabled
  /\ cls' = d.cls
  /\ kids' = d.kids
  /\ lsn' = d.lsn
  /\ ref' = d.ref
  /\ focus' = d.focus
  /\ timers' = d.timers
  /\ ups' = d.ups
  /\ blurs' = d.blurs
  /\ calls' = d.calls
  /\ threw' = d.threw
  /\ name' = name
  /\ btn' = btn
  /\ shell' = shell

\* A change of e's checked state leaves the group unmanaged when some
\* container of that name stores no instance reference.
Touch(e) ==
  unmanaged' = IF \E y \in Elems : name[y] = name[e] /\ ~ref[y]
                 THEN unmanaged \cup {name[e]} ELSE unmanaged

\* The page as served: no widget constructed yet.  The first container
\* carries the ripple class; a group has at most one control checked.
Init ==
  /\ btn = [e \in Elems |-> TRUE]
  /\ name \in [Elems -> Names]
  /\ name[1] = "tier"
  /\ checked \in [Elems -> BOOLEAN]
  /\ \A x, y \in Elems : checked[x] /\ checked[y] /\ name[x] = name[y] => x = y
  /\ disabled = [e \in Elems |-> FALSE]
  /\ cls = [e \in Elems |-> IF e = 1 THEN {JS_RADIO, RIPPLE_EFFECT} ELSE {JS_RADIO}]
  /\ kids = [e \in Elems |-> <<>>]
  /\ lsn = [e \in Elems |-> {}]
  /\ ref = [e \in Elems |-> FALSE]
  /\ inst = [e \in Elems |-> FALSE]
  /\ focus = Absent
  /\ timers = <<>>
  /\ ups = 0
  /\ blurs = 0
  /\ calls = <<>>
  /\ threw = FALSE
  /\ last = Op("load", Absent)
  /\ unmanaged = {}
  /\ shell = ShellStart("development", NoFile)

\* new MaterialRadio(e), called directly: no reference is stored on the container.
New(e) ==
  /\ ~inst[e]
  /\ Commit(MaterialRadio(Fresh, e))
  /\ inst' = [inst EXCEPT ![e] = TRUE]
  /\ last' = Op("new", e)
  /\ UNCHANGED unmanaged

\* new MaterialRadio(null)
NewAbsent ==
  /\ Commit(MaterialRadio(Fresh, Absent))
  /\ last' = Op("newAbsent", Absent)
  /\ UNCHANGED <<inst, unmanaged>>

\* The registry upgrades e: it constructs the instance and, the component being
\* registered as a widget, stores it on the container once the constructor
\* has returned.
Upgrade(e) ==
  /\ ~inst[e]
  /\ Commit([MaterialRadio(Fresh, e) EXCEPT !.ref[e] = ~MaterialRadio(Fresh, e).threw])
  /\ inst' = [inst EXCEPT ![e] = TRUE]
  /\ last' = Op("upgrade", e)
  /\ UNCHANGED unmanaged

Check(e) ==
  /\ inst[e]
  /\ btn[e]
  /\ Commit(check(Fresh, e))
  /\ last' = Op("check", e)
  /\ Touch(e)
  /\ UNCHANGED inst

Uncheck(e) ==
  /\ inst[e]
  /\ btn[e]
  /\ Commit(uncheck(Fresh, e))
  /\ last' = [Op("uncheck", e) EXCEPT !.chk0 = IS_CHECKED \in cls[e],
                                      !.ctl0 = checked[e]]
  /\ Touch(e)
  /\ UNCHANGED inst

\* last keeps what e's container and control showed before the call (so does
\* it after uncheck()).
Disable(e) ==
  /\ inst[e]
  /\ btn[e]
  /\ Commit(disable(Fresh, e))
  /\ last' = [Op("disable", e) EXCEPT !.chk0 = IS_CHECKED \in cls[e],
                                      !.ctl0 = checked[e]]
  /\ UNCHANGED <<inst, unmanaged>>

\* When the call follows disable() on the same instance, last keeps what was
\* recorded before that disable().
Enable(e) ==
  /\ inst[e]
  /\ btn[e]
  /\ Commit(enable(Fresh, e))
  /\ last' = IF last.op = "disable" /\ last.e = e
               THEN [last EXCEPT !.op = "enable", !.seq = TRUE]
               ELSE Op("enable", e)
  /\ UNCHANGED <<inst, unmanaged>>

\* The user picks the radio e: the browser checks it and fires change at it.
UserChange(e) ==
  /\ btn[e]
  /\ ~disabled[e]
  /\ ~checked[e]
  /\ Commit(Dispatch(SetChecked(Fresh, e, TRUE), e, "btn", "change"))
  /\ last' = Op("change", e)
  /\ Touch(e)
  /\ UNCHANGED inst

\* The control of e gains focus and focus fires at it.
FocusEvent(e) ==
  /\ btn[e]
  /\ ~disabled[e]
  /\ focus = Absent
  /\ Commit(Dispatch([Fresh EXCEPT !.focus = e], e, "btn", "focus"))
  /\ last' = Op("focus", e)
  /\ UNCHANGED <<inst, unmanaged>>

\* The control of e loses focus, if it has it, and blur fires at it.
LoseFocus(d, e) ==
  IF d.focus = e THEN Dispatch([d EXCEPT !.focus = Absent], e, "btn", "blur")
  ELSE d

BlurEvent(e) ==
  /\ focus = e
  /\ Commit(LoseFocus(Fresh, e))
  /\ last' = Op("blur", e)
  /\ UNCHANGED <<inst, unmanaged>>

\* mouseup on the container of e (on the control, the label or a circle).
MouseupEvent(e) ==
  /\ Len(timers) < MaxTimers
  /\ ups < MaxMouseups
  /\ Commit(Dispatch(Fresh, e, "elt", "mouseup"))
  /\ last' = Op("mouseup", e)
  /\ UNCHANGED <<inst, unmanaged>>

\* mouseup on the ripple container of e: its own listener runs, then the event
\* bubbles to the container.
MouseupRipple(e) ==
  /\ Len(timers) + 1 < MaxTimers
  /\ ups + 1 < MaxMouseups
  /\ RIPPLE_CONTAINER \in {kids[e][k] : k \in 1..Len(kids[e])}
  /\ Commit(Dispatch(Dispatch(Fresh, e, "ripple", "mouseup"), e, "elt", "mouseup"))
  /\ last' = Op("mouseupRipple", e)
  /\ UNCHANGED <<inst, unmanaged>>

\* The callback blur_ hands to setTimeout: this.btnElement_.blur().  On an
\* instance without control btnElement_ is null and the call raises.
blurTimeout(d, this) ==
  IF ~btn[this] THEN [d EXCEPT !.threw = TRUE]
  ELSE LoseFocus([d EXCEPT !.blurs = @ + 1], this)

\* The oldest deferred callback runs in a turn of its own.
TimerFire ==
  /\ timers # <<>>
  /\ Commit(blurTimeout([Fresh EXCEPT !.timers = Tail(@)], Head(timers)))
  /\ last' = Op("timer", Head(timers))
  /\ UNCHANGED <<inst, unmanaged>>

\* The public methods are called on an instance the caller holds: one whose
\* constructor returned (btn[e]).

\* Construction, the public methods and the events of the control.
NextSync ==
  \/ \E e \in Elems : New(e)
  \/ NewAbsent
  \/ \E e \in Elems : Upgrade(e)
  \/ \E e \in Elems : Check(e)
  \/ \E e \in Elems : Uncheck(e)
  \/ \E e \in Elems : Disable(e)
  \/ \E e \in Elems : Enable(e)
  \/ \E e \in Elems : UserChange(e)
  \/ \E e \in Elems : FocusEvent(e)
  \/ \E e \in Elems : BlurEvent(e)

SpecSync == Init /\ [][NextSync]_vars

\* The whole program: the above, pointer releases and the timer queue.
Next ==
  \/ \E e \in Elems : New(e)
  \/ NewAbsent
  \/ \E e \in Elems : Upgrade(e)
  \/ \E e \in Elems : Check(e)
  \/ \E e \in Elems : Uncheck(e)
  \/ \E e \in Elems : Disable(e)
  \/ \E e \in Elems : Enable(e)
  \/ \E e \in Elems : UserChange(e)
  \/ \E e \in Elems : FocusEvent(e)
  \/ \E e \in Elems : BlurEvent(e)
  \/ \E e \in Elems : MouseupEvent(e)
  \/ \E e \in Elems : MouseupRipple(e)
  \/ TimerFire

Spec == Init /\ [][Next]_vars

----------------------------------------------------------------------------
\* A page that breaks the markup contract: some container with the widget
\* class holds no control.  Everything else is as in Spec.

InitBare ==
  /\ btn \in [Elems -> BOOLEAN]
  /\ \E e \in Elems : ~btn[e]
  /\ name \in [Elems -> Names]
  /\ name[1] = "tier"
  /\ checked \in [Elems -> BOOLEAN]
  /\ \A e \in Elems : ~btn[e] => ~checked[e]
  /\ \A x, y \in Elems : checked[x] /\ checked[y] /\ name[x] = name[y] => x = y
  /\ disabled = [e \in Elems |-> FALSE]
  /\ cls = [e \in Elems |-> IF e = 1 THEN {JS_RADIO, RIPPLE_EFFECT} ELSE {JS_RADIO}]
  /\ kids = [e \in Elems |-> <<>>]
  /\ lsn = [e \in Elems |-> {}]
  /\ ref = [e \in Elems |-> FALSE]
  /\ inst = [e \in Elems |-> FALSE]
  /\ focus = Absent
  /\ timers = <<>>
  /\ ups = 0
  /\ blurs = 0
  /\ calls = <<>>
  /\ threw = FALSE
  /\ last = Op("load", Absent)
  /\ unmanaged = {}
  /\ shell = ShellStart("development", NoFile)

SpecBare == InitBare /\ [][Next]_vars

----------------------------------------------------------------------------
\* The document shell on its own: the module is evaluated once, in either
\* build mode and with or without a stylesheet to load, then rendered.

InitShell ==
  /\ btn = [e \in Elems |-> TRUE]
  /\ name = [e \in Elems |-> "tier"]
  /\ checked = [e \in Elems |-> FALSE]
  /\ disabled = [e \in Elems |-> FALSE]
  /\ cls = [e \in Elems |-> {JS_RADIO}]
  /\ kids = [e \in Elems |-> <<>>]
  /\ lsn = [e \in Elems |-> {}]
  /\ ref = [e \in Elems |-> FALSE]
  /\ inst = [e \in Elems |-> FALSE]
  /\ focus = Absent
  /\ timers = <<>>
  /\ ups = 0
  /\ blurs = 0
  /\ calls = <<>>
  /\ threw = FALSE
  /\ last = Op("load", Absent)
  /\ unmanaged = {}
  /\ \E env \in {"production", "development"}, file \in StyleFiles \cup {NoFile} :
        shell = ShellStart(env, file)

Widget == <<btn, name, checked, disabled, cls, kids, lsn, ref, inst, focus,
            timers, ups, blurs, calls, threw, unmanaged>>

\* The bundle evaluates the module.
LoadModule ==
  /\ ~shell.loaded
  /\ ~shell.failed
  /\ shell' = loadStyles(shell)
  /\ last' = Op("loadModule", Absent)
  /\ UNCHANGED Widget

\* The build renders the exported component.
Render ==
  /\ shell.loaded
  /\ \E h \in Components, b \in Components, a \in Components, m \in Bodies :
        shell' = render(shell, [headComponents |-> h, preBodyComponents |-> b,
                                body |-> m, postBodyComponents |-> a])
  /\ last' = Op("render", Absent)
  /\ UNCHANGED Widget

NextShell ==
  \/ LoadModule
  \/ Render

SpecShell == InitShell /\ [][NextShell]_vars

----------------------------------------------------------------------------
\* The refresh methods on their own: every container is upgraded, and scripts
\* have left the first RefreshElems containers and controls in any state.

RECURSIVE UpgradeFrom(_, _)
UpgradeFrom(d, e) ==
  IF e > NumElems THEN d
  ELSE UpgradeFrom([MaterialRadio(d, e) EXCEPT !.ref[e] = TRUE], e + 1)

Markup ==
  [checked |-> [e \in Elems |-> FALSE], disabled |-> [e \in Elems |-> FALSE],
   cls |-> [e \in Elems |-> IF e = 1 THEN {JS_RADIO, RIPPLE_EFFECT} ELSE {JS_RADIO}],
   kids |-> [e \in Elems |-> <<>>], lsn |-> [e \in Elems |-> {}],
   ref |-> [e \in Elems |-> FALSE], focus |-> Absent, timers |-> <<>>,
   ups |-> 0, blurs |-> 0, calls |-> <<>>, threw |-> FALSE]

Upgraded == UpgradeFrom(Markup, 1)

InitRefresh ==
  /\ btn = [e \in Elems |-> TRUE]
  /\ name = [e \in Elems |-> "tier"]
  /\ checked \in [Elems -> BOOLEAN]
  /\ disabled \in [Elems -> BOOLEAN]
  /\ \E st \in [1..RefreshElems -> SUBSET StateClasses] :
        cls = [e \in Elems |-> IF e <= RefreshElems
                                 THEN (Upgraded.cls[e] \ StateClasses) \cup st[e]
                                 ELSE Upgraded.cls[e]]
  /\ \A e \in Elems : e > RefreshElems => ~checked[e] /\ ~disabled[e]
  /\ \A x, y \in Elems : checked[x] /\ checked[y] => x = y
  /\ kids = Upgraded.kids
  /\ lsn = Upgraded.lsn
  /\ ref = Upgraded.ref
  /\ inst = [e \in Elems |-> TRUE]
  /\ focus = Absent
  /\ timers = <<>>
  /\ ups = 0
  /\ blurs = 0
  /\ calls = <<>>
  /\ threw = FALSE
  /\ last = Op("load", Absent)
  /\ unmanaged = {}
  /\ shell = ShellStart("development", NoFile)

\* last keeps whether the container carried is-checked before the call.
CallCheckDisabled(e) ==
  /\ inst[e]
  /\ Commit(checkDisabled(Fresh, e))
  /\ last' = [Op("checkDisabled", e) EXCEPT !.chk0 = IS_CHECKED \in cls[e]]
  /\ UNCHANGED <<inst, unmanaged>>

CallCheckToggleState(e) ==
  /\ inst[e]
  /\ Commit(checkToggleState(Fresh, e))
  /\ last' = [Op("checkToggleState", e) EXCEPT !.chk0 = IS_CHECKED \in cls[e]]
  /\ UNCHANGED <<inst, unmanaged>>

CallUpdateClasses(e) ==
  /\ inst[e]
  /\ Commit(updateClasses_(Fresh, e))
  /\ last' = [Op("updateClasses_", e) EXCEPT !.chk0 = IS_CHECKED \in cls[e]]
  /\ UNCHANGED <<inst, unmanaged>>

NextRefresh ==
  \/ \E e \in Elems : CallCheckDisabled(e)
  \/ \E e \in Elems : CallCheckToggleState(e)
  \/ \E e \in Elems : CallUpdateClasses(e)

SpecRefresh == InitRefresh /\ [][NextRefresh]_vars

----------------------------------------------------------------------------
\* The timer queue on a page the registry has upgraded whole: the public
\* methods and every event, with the event loop running each timer callback
\* whose delay has passed.

InitTimers ==
  /\ btn = [e \in Elems |-> TRUE]
  /\ name \in [Elems -> Names]
  /\ name[1] = "tier"
  /\ checked \in [Elems -> BOOLEAN]
  /\ \A x, y \in Elems : checked[x] /\ checked[y] /\ name[x] = name[y] => x = y
  /\ disabled = [e \in Elems |-> FALSE]
  /\ cls = [e \in Elems |-> Upgraded.cls[e]
                               \cup (IF checked[e] THEN {IS_CHECKED} ELSE {})]
  /\ kids = Upgraded.kids
  /\ lsn = Upgraded.lsn
  /\ ref = Upgraded.ref
  /\ inst = [e \in Elems |-> TRUE]
  /\ focus = Absent
  /\ timers = <<>>
  /\ ups = 0
  /\ blurs = 0
  /\ calls = <<>>
  /\ threw = FALSE
  /\ last = Op("load", Absent)
  /\ unmanaged = {}
  /\ shell = ShellStart("development", NoFile)

NextTimers ==
  \/ \E e \in Elems : Check(e)
  \/ \E e \in Elems : Uncheck(e)
  \/ \E e \in Elems : Disable(e)
  \/ \E e \in Elems : Enable(e)
  \/ \E e \in Elems : UserChange(e)
  \/ \E e \in Elems : FocusEvent(e)
  \/ \E e \in Elems : BlurEvent(e)
  \/ \E e \in Elems : MouseupEvent(e)
  \/ \E e \in Elems : MouseupRipple(e)
  \/ TimerFire

SpecTimers == InitTimers /\ [][NextTimers]_vars /\ WF_vars(TimerFire)

----------------------------------------------------------------------------
\* Properties.

SameGroup(x, y) == name[x] = name[y]

Shown(e) == IS_CHECKED \in cls[e]

Count(s, y) == Cardinality({k \in 1..Len(s) : s[k] = y})

RanOnChange == last.op \in {"check", "uncheck", "change", "focus"} /\ last.e \in Elems
                 /\ inst[last.e]

\* C1: after check() on a registry-upgraded instance X, among the
\* registry-upgraded instances whose controls carry X's name exactly X's
\* container carries is-checked, whichever member was checked before.
C1_CheckLeavesOnlyX ==
  (last.op = "check" /\ ref[last.e]) =>
     \A y \in Elems : (ref[y] /\ SameGroup(y, last.e)) => (Shown(y) <=> y = last.e)

C1_Witness ==
  /\ last.op = "check"
  /\ ref[last.e]
  /\ Shown(last.e)
  /\ \E y \in Elems : y # last.e /\ ref[y] /\ SameGroup(y, last.e) /\ ~Shown(y)
  /\ Count(calls, last.e) = 1

\* C2 as stated: in every reachable state at most one container among the
\* instances sharing a control name carries is-checked.
C2_AtMostOneShown ==
  \A g \in Names :
     Cardinality({e \in Elems : inst[e] /\ name[e] = g /\ Shown(e)}) <= 1

\* C2 as amended: the same, for every name whose controls changed their
\* checked state only while every container of that name stored its
\* registry reference.
C2_AtMostOneShownManaged ==
  \A g \in Names \ unmanaged :
     Cardinality({e \in Elems : inst[e] /\ name[e] = g /\ Shown(e)}) <= 1

C2_Witness ==
  /\ last.op \in {"check", "change"}
  /\ name[last.e] \notin unmanaged
  /\ Shown(last.e)
  /\ \E y \in Elems : y # last.e /\ inst[y] /\ SameGroup(y, last.e) /\ ~Shown(y)

Mirrors(e) == Shown(e) <=> checked[e]

MirrorsDisabled(e) == (IS_DISABLED \in cls[e]) <=> disabled[e]

\* C3 as stated: every initialised instance's container carries is-disabled
\* exactly when its control is disabled and is-checked exactly when its
\* control is checked.
C3_ClassesMirrorControl ==
  \A e \in Elems : inst[e] => MirrorsDisabled(e) /\ Mirrors(e)

\* C3 as amended: is-disabled mirrors the control for every initialised
\* instance; is-checked mirrors it for the instances of every name whose
\* controls changed their checked state only while every container of that
\* name stored its registry reference.
C3_ClassesMirrorControlManaged ==
  \A e \in Elems :
     inst[e] => /\ MirrorsDisabled(e)
                /\ name[e] \notin unmanaged => Mirrors(e)

C3_Witness ==
  \E e \in Elems :
     /\ inst[e] /\ name[e] \notin unmanaged
     /\ checked[e] /\ Shown(e)
     /\ disabled[e] /\ IS_DISABLED \in cls[e]
     /\ last.op = "disable" /\ last.e = e
     /\ \E y \in Elems : y # e /\ inst[y] /\ SameGroup(y, e) /\ ~checked[y] /\ ~Shown(y)

\* C4: a focus event delivered to the control of an initialised instance
\* leaves its container carrying is-focused.
C4_FocusShowsFocused ==
  (last.op = "focus" /\ inst[last.e]) => IS_FOCUSED \in cls[last.e]

\* C5: a call of updateClasses_ leaves the container's classes where a second
\* call leaves them too, and never writes the control's properties.
C5_RefreshIdempotent ==
  [][\A e \in Elems :
        (last'.op = "updateClasses_" /\ last'.e = e) =>
           /\ updateClasses_(Dom', e).cls = cls'
           /\ checked' = checked
           /\ disabled' = disabled]_vars

C5_Witness ==
  /\ last.op = "updateClasses_"
  /\ ~last.chk0
  /\ Shown(last.e)
  /\ IS_DISABLED \in cls[last.e]
  /\ IS_FOCUSED \in cls[last.e]

\* What disable() on e leaves alone: every other container and control, the
\* control's checked property, children, listeners, references, focus, timers.
DisableFrame(e) ==
  /\ checked' = checked
  /\ \A f \in Elems \ {e} : cls'[f] = cls[f] /\ disabled'[f] = disabled[f]
  /\ kids' = kids /\ lsn' = lsn /\ ref' = ref /\ focus' = focus /\ timers' = timers

\* C6 as stated: disable() sets the control disabled, adds is-disabled and
\* changes no other class of the container and nothing else.
C6_DisableAddsOnlyDisabled ==
  [][\A e \in Elems :
        (last'.op = "disable" /\ last'.e = e) =>
           /\ disabled'[e]
           /\ cls'[e] = cls[e] \cup {IS_DISABLED}
           /\ DisableFrame(e)]_vars

\* C6 as amended: disable() sets the control disabled, adds is-disabled and
\* leaves the container carrying is-checked exactly when the control is
\* checked; it changes no other class and nothing else.
C6_DisableResyncs ==
  [][\A e \in Elems :
        (last'.op = "disable" /\ last'.e = e) =>
           /\ disabled'[e]
           /\ cls'[e] \ {IS_CHECKED} = (cls[e] \cup {IS_DISABLED}) \ {IS_CHECKED}
           /\ (IS_CHECKED \in cls'[e]) <=> checked[e]
           /\ DisableFrame(e)]_vars

C6_Witness ==
  /\ last.op = "disable"
  /\ last.chk0 /\ last.ctl0
  /\ Shown(last.e)
  /\ IS_DISABLED \in cls[last.e]
  /\ disabled[last.e]

\* C7 as stated: after disable() then enable() on A the container carries no
\* is-disabled, the control is enabled, and is-checked is on the container
\* exactly when it was before disable().
C7_DisableEnableKeepsShown ==
  (last.op = "enable" /\ last.seq) =>
     /\ IS_DISABLED \notin cls[last.e]
     /\ ~disabled[last.e]
     /\ Shown(last.e) <=> last.chk0

\* C7 as amended: after disable() then enable() on A the container carries no
\* is-disabled, the control is enabled and as checked as before, and
\* is-checked is on the container exactly when the control is checked: as
\* before disable() whenever the container mirrored the control then.
C7_DisableEnableResyncs ==
  (last.op = "enable" /\ last.seq) =>
     /\ IS_DISABLED \notin cls[last.e]
     /\ ~disabled[last.e]
     /\ checked[last.e] <=> last.ctl0
     /\ Shown(last.e) <=> last.ctl0
     /\ (last.chk0 <=> last.ctl0) => (Shown(last.e) <=> last.chk0)

C7_Witness ==
  /\ last.op = "enable" /\ last.seq
  /\ last.chk0 /\ last.ctl0
  /\ Shown(last.e)

\* C8: constructing a MaterialRadio with an absent container raises nothing
\* and changes nothing: no class, child, listener, reference, control
\* property or timer.
C8_AbsentIsNoOp ==
  [][last'.op = "newAbsent" =>
        /\ ~threw'
        /\ calls' = <<>>
        /\ cls' = cls /\ kids' = kids /\ lsn' = lsn /\ ref' = ref
        /\ checked' = checked /\ disabled' = disabled
        /\ focus' = focus /\ timers' = timers /\ inst' = inst]_vars

C8_Witness ==
  /\ last.op = "newAbsent"
  /\ ~threw
  /\ \E e \in Elems : inst[e]
  /\ \E e \in Elems : ~inst[e] /\ kids[e] = <<>> /\ lsn[e] = {}

\* The user-driven path: the control's checked property is set to v and a
\* change event is delivered to the control.
UserPath(d, e, v) == Dispatch(SetChecked(d, e, v), e, "btn", "change")

\* C9: check() and uncheck() leave every container with the classes, and run
\* the same refreshes, that setting the control's checked property to the same
\* value and delivering a change event to the control would have.
C9_ProgrammaticAsUser ==
  [][\A e \in Elems :
        /\ (last'.op = "check" /\ last'.e = e) =>
              /\ cls' = UserPath(Fresh, e, TRUE).cls
              /\ calls' = UserPath(Fresh, e, TRUE).calls
        /\ (last'.op = "uncheck" /\ last'.e = e) =>
              /\ cls' = UserPath(Fresh, e, FALSE).cls
              /\ calls' = UserPath(Fresh, e, FALSE).calls]_vars

C9_Witness ==
  /\ last.op = "check"
  /\ Shown(last.e)
  /\ Len(calls) >= 2

\* C10 as stated: when onChange_ runs for X, updateClasses_ runs exactly once
\* on every instance whose control carries X's name, X included.
C10_EveryInstanceRefreshedOnce ==
  RanOnChange =>
     \A y \in Elems : (inst[y] /\ SameGroup(y, last.e)) => Count(calls, y) = 1

\* C10 as amended: when onChange_ runs for X, updateClasses_ runs exactly
\* once on every instance whose control carries X's name and whose container
\* stores the instance reference (X included only if its container does), and
\* on no other.
C10_EveryReferencedRefreshedOnce ==
  RanOnChange =>
     \A y \in Elems :
        Count(calls, y) = IF ref[y] /\ SameGroup(y, last.e) THEN 1 ELSE 0

C10_Witness ==
  /\ RanOnChange
  /\ last.op = "change"
  /\ ref[last.e]
  /\ Len(calls) >= 2

\* The listeners a mouseup at e runs: the ripple container's own, when the
\* release is on it, and the container's.
UpHandlers(e, onRipple) ==
  (IF onRipple /\ <<"ripple", "mouseup", "onMouseup_">> \in lsn[e] THEN 1 ELSE 0)
  + (IF <<"elt", "mouseup", "onMouseup_">> \in lsn[e] THEN 1 ELSE 0)

RECURSIVE Repeat(_, _)
Repeat(e, n) == IF n = 0 THEN <<>> ELSE <<e>> \o Repeat(e, n - 1)

\* C11: the turn that runs onMouseup_ leaves the focus owner, every
\* container's classes and every control's properties as they were and only
\* queues one deferred call per run of the handler; the focus is taken from
\* the control by a mouseup's deferred call only in a later turn, the one in
\* which the timer callback runs.
C11_MouseupDefersBlur ==
  [][\A e \in Elems :
        /\ (last'.op \in {"mouseup", "mouseupRipple"} /\ last'.e = e) =>
              /\ focus' = focus
              /\ cls' = cls
              /\ checked' = checked /\ disabled' = disabled
              /\ blurs' = blurs
              /\ timers' = timers \o Repeat(e, UpHandlers(e, last'.op = "mouseupRipple"))
        /\ blurs' # blurs => last'.op = "timer"]_vars

C11_Witness ==
  /\ last.op = "mouseup"
  /\ focus = last.e
  /\ timers # <<>>
  /\ timers[Len(timers)] = last.e
  /\ blurs = 0

\* C12: every run of onMouseup_ queues exactly one deferred blur, no
\* operation but the timer callback itself takes one off the queue, and with
\* the timer queue scheduled fairly every queued one runs and calls blur():
\* the k-th run of the handler is followed by the k-th blur() call.
C12_EveryMouseupBlursOnce ==
  /\ [](ups = blurs + Len(timers))
  /\ [][/\ last'.op # "timer" =>
              /\ blurs' = blurs
              /\ \E n \in 0..2 : /\ ups' = ups + n
                                 /\ Len(timers') = Len(timers) + n
                                 /\ SubSeq(timers', 1, Len(timers)) = timers
        /\ last'.op = "timer" =>
              /\ timers' = Tail(timers)
              /\ blurs' = blurs + 1
              /\ ups' = ups
              /\ focus' # Head(timers)]_vars
  /\ \A k \in 1..MaxMouseups : (ups >= k) ~> (blurs >= k)

C12_Witness ==
  /\ ups = MaxMouseups
  /\ blurs = MaxMouseups
  /\ timers = <<>>
  /\ last.op = "timer"
  /\ \E e \in Elems : IS_CHECKED \in cls[e] /\ disabled[e]

\* C13: init on a present container that holds no control raises, and that
\* container never carries is-upgraded nor gets a listener on a control.
C13_BareContainerFails ==
  \A e \in Elems :
     ~btn[e] =>
        /\ IS_UPGRADED \notin cls[e]
        /\ \A l \in lsn[e] : l[1] # "btn"
        /\ (last.op \in {"new", "upgrade"} /\ last.e = e) => threw

C13_Witness ==
  /\ last.op = "upgrade"
  /\ ~btn[last.e]
  /\ threw
  /\ Len(kids[last.e]) = 3
  /\ lsn[last.e] = {<<"ripple", "mouseup", "onMouseup_">>}
  /\ \E y \in Elems : btn[y] /\ IS_UPGRADED \in cls[y]

Rendered == shell.doc # <<>>

HeadOf == shell.doc[1].head

BodyOf == shell.doc[1].body

\* C14: in production mode a stylesheet that fails to load is logged and
\* module evaluation completes; render then emits the head with the head
\* components and the body with the pre-body components, the mount point
\* and the post-body components, and no style element of the document has
\* content.  Outside production mode no load is attempted and the document
\* has no gatsby-inlined-css element.
C14_StyleFailureContained ==
  /\ ~shell.failed
  /\ (shell.env = "production" /\ shell.file = NoFile /\ last.op # "load") =>
        /\ shell.loaded
        /\ shell.attempted
        /\ Len(shell.logged) = 1
        /\ shell.stylesStr = Undefined
        /\ Rendered =>
              /\ HeadOf = <<Element("meta", "", "")>>
                           \o ComponentElements(shell.props.headComponents)
                           \o <<Element("style", "gatsby-inlined-css", "")>>
              /\ BodyOf = ComponentElements(shell.props.preBodyComponents)
                           \o <<Element("div", "___gatsby", shell.props.body)>>
                           \o ComponentElements(shell.props.postBodyComponents)
              /\ \A k \in 1..Len(HeadOf) : HeadOf[k].tag = "style" => HeadOf[k].text = ""
  /\ shell.env # "production" =>
        /\ ~shell.attempted
        /\ shell.logged = <<>>
        /\ Rendered => \A k \in 1..Len(HeadOf) : HeadOf[k].id # "gatsby-inlined-css"

C14_Witness ==
  /\ shell.env = "production"
  /\ shell.file = NoFile
  /\ Rendered
  /\ shell.logged # <<>>
  /\ shell.props.headComponents # <<>>
  /\ shell.props.postBodyComponents # <<>>
  /\ shell.props.body # ""

\* C15: when onChange_ runs for X (change event, check(), uncheck(), and the
\* focus event bound to it), every container whose control carries another
\* name keeps its classes, its control keeps its checked and disabled
\* properties, and updateClasses_ is not invoked on it.
C15_OtherGroupsUntouched ==
  [][\A e \in Elems :
        (last'.op \in {"check", "uncheck", "change", "focus"} /\ last'.e = e) =>
           \A y \in Elems :
              name[y] # name[e] =>
                 /\ cls'[y] = cls[y]
                 /\ checked'[y] = checked[y]
                 /\ disabled'[y] = disabled[y]
                 /\ Count(calls', y) = 0]_vars

C15_Witness ==
  /\ last.op = "check"
  /\ ref[last.e]
  /\ Count(calls, last.e) = 1
  /\ \E y \in Elems : /\ ~SameGroup(y, last.e)
                       /\ ref[y] /\ checked[y] /\ Shown(y) /\ disabled[y]
                       /\ Count(calls, y) = 0

\* C16 as stated: uncheck() on a registry-upgraded X leaves X's control
\* unchecked and X's container without is-checked, no other member of the
\* group gains is-checked, and when X was the checked member no container of
\* an instance of the group carries is-checked.
C16_UncheckClearsGroup ==
  [][\A e \in Elems :
        (last'.op = "uncheck" /\ last'.e = e /\ ref[e]) =>
           /\ ~checked'[e]
           /\ IS_CHECKED \notin cls'[e]
           /\ \A y \in Elems \ {e} :
                 (name[y] = name[e] /\ IS_CHECKED \in cls'[y]) => IS_CHECKED \in cls[y]
           /\ checked[e] =>
                 \A y \in Elems : (inst[y] /\ name[y] = name[e]) => IS_CHECKED \notin cls'[y]]_vars

\* C16 as amended: the same, where the group left with no is-checked is the
\* members whose containers store the instance reference.
C16_UncheckClearsReferenced ==
  [][\A e \in Elems :
        (last'.op = "uncheck" /\ last'.e = e /\ ref[e]) =>
           /\ ~checked'[e]
           /\ IS_CHECKED \notin cls'[e]
           /\ \A y \in Elems \ {e} :
                 (name[y] = name[e] /\ IS_CHECKED \in cls'[y]) => IS_CHECKED \in cls[y]
           /\ checked[e] =>
                 \A y \in Elems : (ref[y] /\ name[y] = name[e]) => IS_CHECKED \notin cls'[y]]_vars

C16_Witness ==
  /\ last.op = "uncheck"
  /\ ref[last.e]
  /\ last.ctl0 /\ last.chk0
  /\ ~checked[last.e]
  /\ ~Shown(last.e)
  /\ \E y \in Elems : y # last.e /\ ref[y] /\ SameGroup(y, last.e) /\ ~Shown(y)

\* C17: check() and uncheck() refresh only containers that store an instance
\* reference and raise nothing on the others: a container without reference
\* keeps its classes, and on an instance whose own container stores none the
\* call sets the control's checked property and leaves the container's
\* is-checked class as it was.
C17_UnreferencedSkipped ==
  [][\A e \in Elems :
        (last'.op \in {"check", "uncheck"} /\ last'.e = e) =>
           /\ ~threw'
           /\ \A y \in Elems : ~ref[y] => cls'[y] = cls[y] /\ Count(calls', y) = 0
           /\ ~ref[e] => /\ checked'[e] = (last'.op = "check")
                          /\ (IS_CHECKED \in cls'[e]) <=> (IS_CHECKED \in cls[e])]_vars

C17_Witness ==
  /\ last.op = "check"
  /\ inst[last.e]
  /\ ~ref[last.e]
  /\ checked[last.e]
  /\ ~Shown(last.e)
  /\ \E y \in Elems : y # last.e /\ ref[y] /\ SameGroup(y, last.e) /\ Count(calls, y) = 1

====
